---- MODULE Spec2Model ----
(***************************************************************************)
(* A model of openml/evaluations/functions.py: the evaluation listing      *)
(* (list_evaluations, _list_evaluations, __list_evaluations), the measure  *)
(* listing (list_evaluation_measures) and the evaluation/setup join        *)
(* (list_evaluations_setups).                                              *)
(*                                                                         *)
(* Python values: None is the empty tuple and a present value x is the     *)
(* one-element tuple <<x>>.  An XML text holding a number is the sequence  *)
(* of its decimal digits, so that int() is a real conversion ("01" and "1" *)
(* are different texts of the same integer).  Floats are kept in           *)
(* thousandths.                                                            *)
(***************************************************************************)
EXTENDS Integers, Sequences, FiniteSets, TLC

VARIABLES
    op,            \* the function the caller invoked
    pc,            \* the position of the call
    args,          \* the arguments of the call (named parameters)
    kwargs,        \* the **kwargs reaching _list_evaluations: <<name, value>> pairs
    api_call,      \* the request path built by _list_evaluations
    srv_doc,       \* what the server answers to an evaluation or measure request
    srv_setups,    \* what the server answers to a setup request, per setup id
    requests,      \* every network call issued so far, in order
    xml_string,    \* the response of _perform_api_call
    output_format, \* the output_format handed down to the response parser
    evals,         \* list_evaluations_setups: the evaluation table
    setup_chunks,  \* list_evaluations_setups: the batches of setup ids
    chunk,         \* list_evaluations_setups: the index of the batch to fetch next
    setups,        \* list_evaluations_setups: the concatenated setup table
    df,            \* list_evaluations_setups: the joined table
    result,        \* the value returned (None until the call returns)
    error          \* the exception raised (None when there is none)

vars == <<op, pc, args, kwargs, api_call, srv_doc, srv_setups, requests,
          xml_string, output_format, evals, setup_chunks, chunk, setups, df, result, error>>

-----------------------------------------------------------------------------
(* Bounds of the model *)

\* the most oml:evaluation elements of an enumerated response
MaxRecs == 3
\* the most full batches of setup ids a generated evaluation table spans
MaxChunks == 2
\* the largest small number of distinct setup ids of a generated table
MaxSmall == 3
\* the most evaluation rows that repeat a setup id already seen
MaxExtra == 1
\* setup ids 1..MaxSpecial may be missing from, or repeated in, the setup data
MaxSpecial == 1
\* the most rows the server holds for one setup id
MaxRepeat == 2
\* the most oml:measures elements, and oml:measure elements in each
MaxMeasures == 2

-----------------------------------------------------------------------------
(* Python values *)

None == <<>>
Some(x) == <<x>>

\* a value as "%s" renders it
PyText(s) == [str |-> s]
PyInt(n) == [int |-> n]
PyBool(b) == [bool |-> b]
PyNone == [none |-> TRUE]

\* str(v)
PyStr(v) ==
    IF "none" \in DOMAIN v THEN "None"
    ELSE IF "str" \in DOMAIN v THEN v.str
    ELSE IF "int" \in DOMAIN v THEN ToString(v.int)
    ELSE IF v.bool THEN "True" ELSE "False"

\* str.lower() on the texts str(bool) yields
Lower(s) ==
    CASE s = "True" -> "true"
      [] s = "False" -> "false"
      [] OTHER -> s

\* int(text) of a decimal text
RECURSIVE int(_)
int(d) ==
    IF d = <<>> THEN 0
    ELSE int(SubSeq(d, 1, Len(d) - 1)) * 10 + d[Len(d)]

\* the decimal text of n without leading zeros (what the server writes)
RECURSIVE Decimal(_)
Decimal(n) == IF n < 10 THEN <<n>> ELSE Decimal(n \div 10) \o <<n % 10>>

\* float(text), in thousandths, on the texts the server writes
float(s) ==
    CASE s = "0.5" -> 500
      [] s = "1" -> 1000
      [] s = "1.0" -> 1000
      [] OTHER -> 0

\* json.loads(text) on the texts the server writes
JsonLoads(s) ==
    CASE s = "[0.5, 1.0]" -> Some(<<500, 1000>>)
      [] s = "[1.0]" -> Some(<<1000>>)
      [] OTHER -> None          \* "null"

\* ','.join([str(int(i)) for i in ids])
RECURSIVE JoinInts(_)
JoinInts(ids) ==
    IF ids = <<>> THEN ""
    ELSE IF Len(ids) = 1 THEN ToString(ids[1])
    ELSE ToString(ids[1]) \o "," \o JoinInts(Tail(ids))

Range(s) == {s[i] : i \in DOMAIN s}

SeqsUpTo(S, n) == UNION {[1..k -> S] : k \in 0..n}

-----------------------------------------------------------------------------
(* XML documents and xmltodict.parse *)

\* xmltodict's _should_force_list: `key in force_list`.  force_list is a tuple
\* of names (membership) or, written without the trailing comma, one string
\* (Python's `in` is then the substring test).
Substrings(text) ==
    CASE text = "oml:measures" -> {"oml:measures", "oml:measure"}
      [] OTHER -> {text}

ShouldForceList(key, force_list) ==
    IF "names" \in DOMAIN force_list THEN key \in force_list.names
    ELSE key \in Substrings(force_list.text)

\* the value xmltodict stores under `key` for the child elements `occ` of
\* that name: no key at all, a list, or the single child itself
Item(key, occ, force_list) ==
    IF occ = <<>> THEN [absent |-> TRUE]
    ELSE IF ShouldForceList(key, force_list) \/ Len(occ) > 1 THEN [list |-> occ]
    ELSE [one |-> occ[1]]

\* force_list=('oml:evaluation',)
EvaluationForceList == [names |-> {"oml:evaluation"}]

\* xmltodict.parse(xml_string, force_list=('oml:evaluation',)): an element
\* without children and attributes parses to None
ParseEvaluationsXml(doc) ==
    [top |-> doc.root,
     body |-> IF doc.children = <<>> /\ ~doc.attrs THEN None
              ELSE Some([evaluation |->
                           Item("oml:evaluation", doc.children, EvaluationForceList)])]

\* force_list=('oml:measures') is a string, not a tuple
MeasuresForceList == [text |-> "oml:measures"]

ParseMeasuresElement(e) ==
    IF e.measure = <<>> /\ ~e.other THEN None
    ELSE Some([measure |-> Item("oml:measure", e.measure, MeasuresForceList)])

\* xmltodict.parse(xml_string, force_list=('oml:measures'))
ParseMeasuresXml(doc) ==
    [top |-> doc.root,
     body |-> IF doc.measures = <<>> /\ ~doc.attrs THEN None
              ELSE Some([measures |->
                           Item("oml:measures",
                                [i \in DOMAIN doc.measures |->
                                    ParseMeasuresElement(doc.measures[i])],
                                MeasuresForceList)])]

-----------------------------------------------------------------------------
(* __list_evaluations: the response parser *)

\* EvaluationEntry with the three optional fields read in an if/elif chain:
\* only the first one present is kept
EvaluationEntryExclusive(eval_, fmt) ==
    LET value == IF eval_.value # None THEN Some(float(eval_.value[1])) ELSE None
        values == IF eval_.value = None /\ eval_.values # None
                    THEN JsonLoads(eval_.values[1]) ELSE None
        array_data == IF eval_.value = None /\ eval_.values = None
                        THEN eval_.array_data ELSE None
    IN [cls |-> IF fmt = "object" THEN "OpenMLEvaluation" ELSE "dict",
        run_id |-> int(eval_.run_id),
        task_id |-> int(eval_.task_id),
        setup_id |-> int(eval_.setup_id),
        flow_id |-> int(eval_.flow_id),
        flow_name |-> eval_.flow_name,
        data_id |-> eval_.data_id,
        data_name |-> eval_.data_name,
        function |-> eval_.function,
        upload_time |-> eval_.upload_time,
        value |-> value,
        values |-> values,
        array_data |-> array_data]

\* one iteration of the loop over the oml:evaluation elements: the record
\* stored under run_id
EvaluationEntry(eval_, fmt) ==
    LET value == IF eval_.value # None THEN Some(float(eval_.value[1])) ELSE None
        values == IF eval_.values # None THEN JsonLoads(eval_.values[1]) ELSE None
        array_data == IF eval_.array_data # None THEN eval_.array_data ELSE None
    IN [cls |-> IF fmt = "object" THEN "OpenMLEvaluation" ELSE "dict",
        run_id |-> int(eval_.run_id),
        task_id |-> int(eval_.task_id),
        setup_id |-> int(eval_.setup_id),
        flow_id |-> int(eval_.flow_id),
        flow_name |-> eval_.flow_name,
        data_id |-> eval_.data_id,
        data_name |-> eval_.data_name,
        function |-> eval_.function,
        upload_time |-> eval_.upload_time,
        value |-> value,
        values |-> values,
        array_data |-> array_data]

\* collections.OrderedDict(): the keys in insertion order, and the value of
\* each key at the key's place
EmptyOrderedDict == [kind |-> "OrderedDict", order |-> <<>>, entries |-> <<>>]

\* SetItem as evals.setdefault(key, entry): an existing key keeps its value
SetItemKeepFirst(d, key, entry) ==
    IF key \in Range(d.order) THEN d
    ELSE [d EXCEPT !.order = Append(d.order, key),
                   !.entries = Append(d.entries, entry)]

\* evals[key] = entry on an OrderedDict: a new key goes last, an existing key
\* keeps its place and gets the new value
SetItem(d, key, entry) ==
    IF key \in Range(d.order)
      THEN LET i == CHOOSE j \in DOMAIN d.order : d.order[j] = key
           IN [d EXCEPT !.entries[i] = entry]
      ELSE [d EXCEPT !.order = Append(d.order, key),
                     !.entries = Append(d.entries, entry)]

\* the loop of __list_evaluations over the elements lo..hi, in order, from
\* the mapping d.  The range is halved to keep the evaluation shallow, and the
\* test on the first half's mapping makes TLC compute it before the second.
RECURSIVE Accumulate(_, _, _, _, _)
Accumulate(d, elements, lo, hi, fmt) ==
    IF lo > hi THEN d
    ELSE IF lo = hi
      THEN LET entry == EvaluationEntry(elements[lo], fmt)
           IN SetItem(d, entry.run_id, entry)
    ELSE LET mid == (lo + hi) \div 2
             first == Accumulate(d, elements, lo, mid, fmt)
         IN IF Len(first.order) >= 0
              THEN Accumulate(first, elements, mid + 1, hi, fmt)
              ELSE first

\* rows = [value for key, value in evals.items()]
Rows(d) == d.entries

\* the outcome of __list_evaluations on a response: [error, result]
ParseEvaluations(doc, fmt) ==
    LET evals_dict == ParseEvaluationsXml(doc) IN
    IF evals_dict.top # "oml:evaluations"
      THEN [error |-> Some("ValueError"), result |-> None]
    ELSE IF evals_dict.body = None
      THEN [error |-> Some("TypeError"), result |-> None]
    ELSE IF "absent" \in DOMAIN evals_dict.body[1].evaluation
      THEN [error |-> Some("KeyError"), result |-> None]
    ELSE IF "list" \notin DOMAIN evals_dict.body[1].evaluation
      THEN [error |-> Some("AssertionError"), result |-> None]
    ELSE LET elements == evals_dict.body[1].evaluation.list
             d == Accumulate(EmptyOrderedDict, elements, 1, Len(elements), fmt)
         IN IF fmt = "dataframe"
              THEN IF Rows(d) = <<>>
                     THEN [error |-> Some("IndexError"), result |-> None]
                     ELSE [error |-> None,
                           result |-> Some([kind |-> "DataFrame", rows |-> Rows(d)])]
              ELSE [error |-> None, result |-> Some(d)]

\* the outcome of list_evaluation_measures on a response: [error, result]
ParseMeasures(doc) ==
    LET qualities == ParseMeasuresXml(doc) IN
    IF qualities.top # "oml:evaluation_measures"
      THEN [error |-> Some("ValueError"), result |-> None]
    ELSE IF qualities.body = None
      THEN [error |-> Some("TypeError"), result |-> None]
    ELSE IF "list" \notin DOMAIN qualities.body[1].measures
      THEN [error |-> Some("KeyError"), result |-> None]
    ELSE LET first == qualities.body[1].measures.list[1] IN
         IF first = None
           THEN [error |-> Some("TypeError"), result |-> None]
         ELSE IF "absent" \in DOMAIN first[1].measure
           THEN [error |-> Some("KeyError"), result |-> None]
         ELSE IF "list" \notin DOMAIN first[1].measure
           THEN [error |-> Some("TypeError"), result |-> None]
         ELSE [error |-> None,
               result |-> Some([kind |-> "list", items |-> first[1].measure.list])]

-----------------------------------------------------------------------------
(* _list_evaluations: the request path *)

\* for operator, value in kwargs.items(): api_call += "/%s/%s" % (operator, value)
RECURSIVE KwargsPath(_)
KwargsPath(kw) ==
    IF kw = <<>> THEN ""
    ELSE "/" \o kw[1][1] \o "/" \o PyStr(kw[1][2]) \o KwargsPath(Tail(kw))

\* if <filter> is not None: api_call += "/<name>/%s" % ','.join(...)
ListSegment(name, ids) ==
    IF ids # None THEN "/" \o name \o "/" \o JoinInts(ids[1]) ELSE ""

\* the api_call _list_evaluations builds
BuildApiCall(a, kw) ==
    "evaluation/list/function/" \o a.function
      \o KwargsPath(kw)
      \o ListSegment("run", a.id)
      \o ListSegment("task", a.task)
      \o ListSegment("setup", a.setup)
      \o ListSegment("flow", a.flow)
      \o ListSegment("uploader", a.uploader)
      \o (IF a.sort_order # None THEN "/sort_order/" \o a.sort_order[1] ELSE "")

-----------------------------------------------------------------------------
(* list_evaluations and the paging helper it hands the call to *)

ValidFormats == {"dataframe", "dict", "object"}

\* the keyword filters list_evaluations passes on, per_fold as
\* str(per_fold).lower()
ListEvaluationsFilters(a) ==
    << <<"offset", IF a.offset = None THEN PyNone ELSE PyInt(a.offset[1])>>,
       <<"size", IF a.size = None THEN PyNone ELSE PyInt(a.size[1])>>,
       <<"tag", IF a.tag = None THEN PyNone ELSE PyText(a.tag[1])>>,
       <<"per_fold", IF a.per_fold = None THEN PyNone
                     ELSE PyText(Lower(PyStr(PyBool(a.per_fold[1]))))>> >>

RECURSIVE SelectSeq2(_, _)
SelectSeq2(s, names) ==
    IF s = <<>> THEN <<>>
    ELSE (IF s[1][1] \in names /\ s[1][2] # PyNone THEN <<s[1]>> ELSE <<>>)
           \o SelectSeq2(Tail(s), names)

\* openml.utils._list_all: filters that are None are dropped, size and offset
\* become the page's limit and offset, and the listing call is made for the page
ListAllKwargs(filters) ==
    LET size == SelectSeq2(filters, {"size"})
        offset == SelectSeq2(filters, {"offset"})
    IN << <<"limit", IF size = <<>> THEN PyInt(10000) ELSE size[1][2]>>,
          <<"offset", IF offset = <<>> THEN PyInt(0) ELSE offset[1][2]>> >>
         \o SelectSeq2(filters, {"tag", "per_fold"})

\* what the paging helper returns when the server has no result
EmptyResult(fmt) ==
    IF fmt = "dataframe" THEN [kind |-> "DataFrame", rows |-> <<>>]
    ELSE EmptyOrderedDict

ViaListAll == {"list_evaluations", "list_evaluations_setups"}

-----------------------------------------------------------------------------
(* The steps of a call *)

Raise(e) ==
    /\ error' = Some(e)
    /\ pc' = "raised"

\* list_evaluations_setups calls list_evaluations(..., output_format='dataframe')
ListEvaluationsSetupsCall ==
    /\ pc = "list_evaluations_setups"
    /\ output_format' = "dataframe"
    /\ pc' = "list_evaluations"
    /\ UNCHANGED <<op, args, kwargs, api_call, srv_doc, srv_setups, requests,
                   xml_string, evals, setup_chunks, chunk, setups, df, result, error>>

\* list_evaluations: the check of output_format, then the call of _list_all
ListEvaluations ==
    /\ pc = "list_evaluations"
    /\ IF output_format \notin ValidFormats
         THEN /\ Raise("ValueError")
              /\ UNCHANGED kwargs
         ELSE /\ kwargs' = ListEvaluationsFilters(args)
              /\ pc' = "_list_all"
              /\ UNCHANGED error
    /\ UNCHANGED <<op, args, api_call, srv_doc, srv_setups, requests, xml_string,
                   output_format, evals, setup_chunks, chunk, setups, df, result>>

\* _list_all calls the listing call for the page
ListAll ==
    /\ pc = "_list_all"
    /\ kwargs' = ListAllKwargs(kwargs)
    /\ pc' = "_list_evaluations"
    /\ UNCHANGED <<op, args, api_call, srv_doc, srv_setups, requests, xml_string,
                   output_format, evals, setup_chunks, chunk, setups, df, result, error>>

\* _list_evaluations builds the path and calls __list_evaluations
ListEvaluations_ ==
    /\ pc = "_list_evaluations"
    /\ api_call' = BuildApiCall(args, kwargs)
    /\ pc' = "__list_evaluations"
    /\ UNCHANGED <<op, args, kwargs, srv_doc, srv_setups, requests, xml_string,
                   output_format, evals, setup_chunks, chunk, setups, df, result, error>>

\* __list_evaluations: openml._api_calls._perform_api_call(api_call, 'get')
PerformApiCall ==
    /\ pc = "__list_evaluations"
    /\ requests' = Append(requests, [call |-> "get", target |-> api_call])
    /\ xml_string' = Some(srv_doc)
    /\ pc' = IF "no_result" \in DOMAIN srv_doc THEN "no_result" ELSE "parse"
    /\ UNCHANGED <<op, args, kwargs, api_call, srv_doc, srv_setups, output_format,
                   evals, setup_chunks, chunk, setups, df, result, error>>

\* what follows the return of list_evaluations
Return(r) ==
    IF op = "list_evaluations_setups"
      THEN /\ evals' = r
           /\ pc' = "split"
           /\ UNCHANGED result
      ELSE /\ result' = Some(r)
           /\ pc' = "done"
           /\ UNCHANGED evals

\* the server has no result: the request raises, and _list_all returns what it
\* has gathered, which is nothing
NoResult ==
    /\ pc = "no_result"
    /\ IF op \in ViaListAll
         THEN /\ Return(EmptyResult(output_format))
              /\ UNCHANGED error
         ELSE /\ Raise("OpenMLServerNoResult")
              /\ UNCHANGED <<result, evals>>
    /\ UNCHANGED <<op, args, kwargs, api_call, srv_doc, srv_setups, requests,
                   xml_string, output_format, setup_chunks, chunk, setups, df>>

\* __list_evaluations: the parse of the response
ListEvaluationsParse ==
    /\ pc = "parse"
    /\ LET r == ParseEvaluations(xml_string[1], output_format) IN
       IF r.error # None
         THEN /\ Raise(r.error[1])
              /\ UNCHANGED <<result, evals>>
         ELSE /\ Return(r.result[1])
              /\ UNCHANGED error
    /\ UNCHANGED <<op, args, kwargs, api_call, srv_doc, srv_setups, requests,
                   xml_string, output_format, setup_chunks, chunk, setups, df>>

\* list_evaluation_measures: the request
ListEvaluationMeasures ==
    /\ pc = "list_evaluation_measures"
    /\ api_call' = "evaluationmeasure/list"
    /\ requests' = Append(requests, [call |-> "get", target |-> "evaluationmeasure/list"])
    /\ xml_string' = Some(srv_doc)
    /\ pc' = "parse_measures"
    /\ UNCHANGED <<op, args, kwargs, srv_doc, srv_setups, output_format, evals,
                   setup_chunks, chunk, setups, df, result, error>>

\* list_evaluation_measures: the parse of the response
ListEvaluationMeasuresParse ==
    /\ pc = "parse_measures"
    /\ LET r == ParseMeasures(xml_string[1]) IN
       IF r.error # None
         THEN /\ Raise(r.error[1])
              /\ UNCHANGED result
         ELSE /\ result' = r.result
              /\ pc' = "done"
              /\ UNCHANGED error
    /\ UNCHANGED <<op, args, kwargs, api_call, srv_doc, srv_setups, requests,
                   xml_string, output_format, evals, setup_chunks, chunk, setups, df>>

-----------------------------------------------------------------------------
(* list_evaluations_setups: the join with the setups *)

\* N = 100
N == 100

EmptyDataFrame == [kind |-> "DataFrame", rows |-> <<>>]

\* evals['setup_id'].unique(): the distinct values in order of first appearance
\* (rows lo..hi scanned in order from `seen`; the range is halved as in
\* Accumulate)
RECURSIVE Unique(_, _, _, _)
Unique(seen, rows, lo, hi) ==
    IF lo > hi THEN seen
    ELSE IF lo = hi
      THEN IF rows[lo].setup_id \in Range(seen) THEN seen
           ELSE Append(seen, rows[lo].setup_id)
    ELSE LET mid == (lo + hi) \div 2
             first == Unique(seen, rows, lo, mid)
         IN IF Len(first) >= 0 THEN Unique(first, rows, mid + 1, hi) ELSE first

\* np.split(ary, sections) with an integer: `sections` equal parts, and a
\* ValueError when the array does not divide equally
NpSplit(ary, sections) ==
    IF sections = 0
      THEN [error |-> Some("ZeroDivisionError"), parts |-> <<>>]
    ELSE IF Len(ary) % sections # 0
      THEN [error |-> Some("ValueError"), parts |-> <<>>]
      ELSE LET size == Len(ary) \div sections IN
           [error |-> None,
            parts |-> [i \in 1..sections |->
                         SubSeq(ary, (i - 1) * size + 1, i * size)]]

\* the number of sections: ((len(unique) - 1) // N) + 1
Sections(n) == ((n - 1) \div N) + 1

\* openml.setups.list_setups(setup=ids, output_format='dataframe'): the rows
\* the server holds for the ids asked for
RECURSIVE FetchRows(_, _, _, _)
FetchRows(db, ids, lo, hi) ==
    IF lo > hi THEN <<>>
    ELSE IF lo = hi
      THEN IF ids[lo] \in DOMAIN db THEN db[ids[lo]] ELSE <<>>
    ELSE LET mid == (lo + hi) \div 2
         IN FetchRows(db, ids, lo, mid) \o FetchRows(db, ids, mid + 1, hi)

ListSetups(db, ids) == FetchRows(db, ids, 1, Len(ids))

\* result.drop('flow_id', axis=1, inplace=True)
DropFlowId(rows) ==
    [i \in DOMAIN rows |->
        [setup_id |-> rows[i].setup_id, parameters |-> rows[i].parameters]]

\* [tuple([param['parameter_name'], param['value']]) for param in parameter_dict.values()]
ParameterTuples(parameter_dict) ==
    [i \in DOMAIN parameter_dict |->
        <<parameter_dict[i].parameter_name, parameter_dict[i].value>>]

\* setups['parameters'] = parameters: a list of tuples per setup, [] for None
ConvertParameters(rows) ==
    [i \in DOMAIN rows |->
        [setup_id |-> rows[i].setup_id,
         parameters |-> IF rows[i].parameters # None
                          THEN ParameterTuples(rows[i].parameters[1])
                          ELSE <<>>]]

\* a cell of the joined table's parameters column
NaN == [nan |-> TRUE]
ListCell(l) == [list |-> l]

WithParameters(row, cell) ==
    [f \in DOMAIN row \cup {"parameters"} |->
        IF f = "parameters" THEN cell ELSE row[f]]

\* the rows of `right` whose setup_id is `id`, in order
Matching(right, id) ==
    LET Same(r) == r.setup_id = id IN SelectSeq(right, Same)

\* MergeLeft keeping one row per left row: the first match only
RECURSIVE MergeLeftFirst(_, _, _, _)
MergeLeftFirst(left, right, lo, hi) ==
    IF lo > hi THEN <<>>
    ELSE IF lo = hi
      THEN LET m == Matching(right, left[lo].setup_id) IN
           IF m = <<>> THEN <<WithParameters(left[lo], NaN)>>
           ELSE <<WithParameters(left[lo], ListCell(m[1].parameters))>>
    ELSE LET mid == (lo + hi) \div 2
         IN MergeLeftFirst(left, right, lo, mid)
              \o MergeLeftFirst(left, right, mid + 1, hi)

\* pd.merge(evals, setups, on='setup_id', how='left'): every left row once per
\* matching right row, and once with a missing value when there is none
\* (the left rows lo..hi, in order; the range is halved)
RECURSIVE MergeLeft(_, _, _, _)
MergeLeft(left, right, lo, hi) ==
    IF lo > hi THEN <<>>
    ELSE IF lo = hi
      THEN LET m == Matching(right, left[lo].setup_id) IN
           IF m = <<>> THEN <<WithParameters(left[lo], NaN)>>
           ELSE [j \in DOMAIN m |->
                   WithParameters(left[lo], ListCell(m[j].parameters))]
    ELSE LET mid == (lo + hi) \div 2
         IN MergeLeft(left, right, lo, mid) \o MergeLeft(left, right, mid + 1, hi)

\* df.to_dict(orient='index')
ToDict(frame) ==
    [kind |-> "dict",
     at |-> [i \in 0..(Len(frame.rows) - 1) |-> frame.rows[i + 1]]]

\* HasRows with the test left out
HasRowsAlways(frame) == TRUE

\* len(evals) != 0
HasRows(frame) == Len(frame.rows) # 0

\* df = pd.DataFrame(); if len(evals) != 0: the split into batches
SplitSetups ==
    /\ pc = "split"
    /\ IF HasRows(evals)
         THEN LET unique == Unique(<<>>, evals.rows, 1, Len(evals.rows))
                  split == NpSplit(unique, Sections(Len(unique)))
              IN IF split.error # None
                   THEN /\ Raise(split.error[1])
                        /\ UNCHANGED <<setup_chunks, chunk>>
                   ELSE /\ setup_chunks' = split.parts
                        /\ chunk' = 1
                        /\ pc' = "fetch"
                        /\ UNCHANGED error
         ELSE /\ pc' = "return"
              /\ UNCHANGED <<setup_chunks, chunk, error>>
    /\ df' = EmptyDataFrame
    /\ setups' = <<>>
    /\ UNCHANGED <<op, args, kwargs, api_call, srv_doc, srv_setups, requests,
                   xml_string, output_format, evals, result>>

\* one iteration of `for setup in setup_chunks`: the fetch of a batch
FetchSetups ==
    /\ pc = "fetch"
    /\ chunk <= Len(setup_chunks)
    /\ requests' = Append(requests, [call |-> "list_setups",
                                     setup |-> setup_chunks[chunk]])
    /\ LET fetched == ListSetups(srv_setups, setup_chunks[chunk]) IN
       IF fetched = <<>>
         THEN \* an empty frame has no flow_id column to drop
              /\ Raise("KeyError")
              /\ UNCHANGED <<setups, chunk>>
         ELSE /\ setups' = setups \o DropFlowId(fetched)
              /\ chunk' = chunk + 1
              /\ UNCHANGED <<pc, error>>
    /\ UNCHANGED <<op, args, kwargs, api_call, srv_doc, srv_setups, xml_string,
                   output_format, evals, setup_chunks, df, result>>

\* after the loop: the parameters as lists of tuples, and the merge
MergeSetups ==
    /\ pc = "fetch"
    /\ chunk > Len(setup_chunks)
    /\ setups' = ConvertParameters(setups)
    /\ df' = [kind |-> "DataFrame",
              rows |-> MergeLeft(evals.rows, ConvertParameters(setups),
                                 1, Len(evals.rows))]
    /\ pc' = "return"
    /\ UNCHANGED <<op, args, kwargs, api_call, srv_doc, srv_setups, requests,
                   xml_string, output_format, evals, setup_chunks, chunk, result,
                   error>>

\* if output_format == 'dataframe': return df; else: return df.to_dict(orient='index')
ReturnSetups ==
    /\ pc = "return"
    /\ result' = Some(IF args.output_format = "dataframe" THEN df ELSE ToDict(df))
    /\ pc' = "done"
    /\ UNCHANGED <<op, args, kwargs, api_call, srv_doc, srv_setups, requests,
                   xml_string, output_format, evals, setup_chunks, chunk, setups,
                   df, error>>

-----------------------------------------------------------------------------
(* The inputs: the caller's arguments and the server's data *)

\* the presence of the three optional fields of an oml:evaluation element;
\* k runs through every combination: oml:value present or not, oml:values
\* absent, a list or null, oml:array_data present or not
FieldCombos == 2 * 3 * 2
OptionalFields(k) ==
    [value |-> IF k % 2 = 1 THEN Some("0.5") ELSE None,
     values |-> CASE (k \div 2) % 3 = 0 -> None
                  [] (k \div 2) % 3 = 1 -> Some("[0.5, 1.0]")
                  [] OTHER -> Some("null"),
     array_data |-> IF (k \div 6) % 2 = 1 THEN Some("[0.1,0.9]") ELSE None]

\* the i-th oml:evaluation element of a response
Element(run_id, setup_id, i, k) ==
    [run_id |-> run_id,
     task_id |-> <<5, 9>>,
     setup_id |-> setup_id,
     flow_id |-> IF i % 2 = 1 THEN <<0, 7>> ELSE <<8>>,
     flow_name |-> IF i % 2 = 1 THEN "sklearn.svm.SVC" ELSE "weka.J48",
     data_id |-> "61",
     data_name |-> "iris",
     function |-> "predictive_accuracy",
     upload_time |-> "2019-01-0" \o ToString(i),
     value |-> OptionalFields(k).value,
     values |-> OptionalFields(k).values,
     array_data |-> OptionalFields(k).array_data]

RunIdTexts == {<<1>>, <<0, 1>>, <<2>>}
Roots == {"oml:evaluations", "oml:error"}

EvaluationDoc(root, attrs, ids, c) ==
    [root |-> root, attrs |-> attrs,
     children |-> [i \in DOMAIN ids |->
                     Element(ids[i], Decimal(i), i, (c + i - 1) % FieldCombos)]]

\* the responses the parser is run on
EvaluationDocs ==
    {EvaluationDoc(root, attrs, ids, c) :
        root \in Roots, attrs \in BOOLEAN,
        ids \in SeqsUpTo(RunIdTexts, MaxRecs), c \in 0..(FieldCombos - 1)}

ServerNoResult == [no_result |-> TRUE]

\* the responses of the calls that start above the parser
FewDocs ==
    {EvaluationDoc(root, TRUE, ids, 1) :
        root \in Roots, ids \in SeqsUpTo({<<1>>}, 1)} \cup {ServerNoResult}

\* the numbers of distinct setup ids of the generated evaluation tables: the
\* small ones, and the ones at and right above every multiple of N
SetupCounts ==
    (1..MaxSmall) \cup {k * N + d : k \in 1..MaxChunks, d \in {0, 1}}

\* the setup id of the i-th row of a table with n distinct setup ids: the
\* first `extra` rows repeat ids that also come later
SetupOfRow(i, n, extra) ==
    IF i <= extra THEN (i % n) + 1 ELSE i - extra

SetupsDoc(n, extra) ==
    [root |-> "oml:evaluations", attrs |-> TRUE,
     children |-> [i \in 1..(n + extra) |->
                     Element(Decimal(i), Decimal(SetupOfRow(i, n, extra)), i, 1)]]

ParameterMapping(id) ==
    << [parameter_name |-> "C", value |-> ToString(id)],
       [parameter_name |-> "kernel", value |-> "rbf"] >>

SetupRow(id, with) ==
    [setup_id |-> id, flow_id |-> 7,
     parameters |-> IF with THEN Some(ParameterMapping(id)) ELSE None]

\* what the server holds for one of the ids 1..MaxSpecial: no row, a row
\* without a parameter mapping, or up to MaxRepeat equal rows with one
SpecialRows(id) ==
    {<<>>, <<SetupRow(id, FALSE)>>}
        \cup {[j \in 1..count |-> SetupRow(id, TRUE)] : count \in 1..MaxRepeat}

SpecialChoices ==
    {special \in [1..MaxSpecial -> UNION {SpecialRows(id) : id \in 1..MaxSpecial}] :
        \A id \in 1..MaxSpecial : special[id] \in SpecialRows(id)}

\* the setup data of a server that knows the setup ids 1..n
SetupData(n) ==
    {[id \in 1..n |-> IF id <= MaxSpecial THEN special[id]
                      ELSE <<SetupRow(id, TRUE)>>] :
        special \in SpecialChoices}

NoArgs ==
    [function |-> "predictive_accuracy", offset |-> None, size |-> None,
     id |-> None, task |-> None, setup |-> None, flow |-> None,
     uploader |-> None, tag |-> None, per_fold |-> None, sort_order |-> None,
     output_format |-> "object"]

Fresh ==
    /\ requests = <<>>
    /\ xml_string = None
    /\ evals = EmptyDataFrame
    /\ setup_chunks = <<>>
    /\ chunk = 0
    /\ setups = <<>>
    /\ df = EmptyDataFrame
    /\ result = None
    /\ error = None

\* a call of __list_evaluations(api_call, output_format)
InitParser ==
    /\ op = "__list_evaluations"
    /\ pc = "__list_evaluations"
    /\ \E f \in {"object", "dict", "dataframe"} :
         /\ args = [NoArgs EXCEPT !.output_format = f]
         /\ output_format = f
    /\ kwargs = <<>>
    /\ srv_doc \in EvaluationDocs
    /\ srv_setups = <<>>
    /\ api_call = "evaluation/list/function/predictive_accuracy"
    /\ Fresh

Optional(S) == {None} \cup {Some(x) : x \in S}

\* the **kwargs of a direct call of _list_evaluations, in the caller's order
KeywordChoices ==
    {(IF tag = None THEN <<>> ELSE << <<"tag", tag[1]>> >>)
       \o (IF limit = None THEN <<>> ELSE << <<"limit", limit[1]>> >>)
       \o (IF offset = None THEN <<>> ELSE << <<"offset", offset[1]>> >>)
       \o (IF per_fold = None THEN <<>> ELSE << <<"per_fold", per_fold[1]>> >>) :
        tag \in Optional({PyNone, PyText("study_14")}),
        limit \in Optional({PyInt(10)}),
        offset \in Optional({PyInt(0)}),
        per_fold \in Optional({PyNone, PyText("true")})}

\* a call of _list_evaluations(function, id, task, setup, flow, uploader,
\* sort_order, output_format, **kwargs)
InitPath ==
    /\ op = "_list_evaluations"
    /\ pc = "_list_evaluations"
    /\ \E id \in Optional({<<12, 7>>}), task \in Optional({<<3>>}),
          setup \in Optional({<<4, 5, 6>>}), flow \in Optional({<<8>>}),
          uploader \in Optional({<<>>, <<1>>}), sort_order \in Optional({"asc"}) :
         args = [NoArgs EXCEPT !.id = id, !.task = task, !.setup = setup,
                               !.flow = flow, !.uploader = uploader,
                               !.sort_order = sort_order, !.output_format = "dict"]
    /\ output_format = "dict"
    /\ kwargs \in KeywordChoices
    /\ srv_doc = EvaluationDoc("oml:evaluations", TRUE, << <<1>> >>, 1)
    /\ srv_setups = <<>>
    /\ api_call = ""
    /\ Fresh

Formats == ValidFormats \cup {"bogus"}

\* a call of list_evaluations
InitList ==
    /\ op = "list_evaluations"
    /\ pc = "list_evaluations"
    /\ \E f \in Formats, per_fold \in Optional(BOOLEAN),
          tag \in Optional({"study_14"}), size \in Optional({5}),
          offset \in Optional({2}), id \in Optional({<<1, 2>>}),
          sort_order \in Optional({"desc"}) :
         /\ args = [NoArgs EXCEPT !.output_format = f, !.per_fold = per_fold,
                                  !.tag = tag, !.size = size, !.offset = offset,
                                  !.id = id, !.sort_order = sort_order]
         /\ output_format = f
    /\ kwargs = <<>>
    /\ srv_doc \in FewDocs
    /\ srv_setups = <<>>
    /\ api_call = ""
    /\ Fresh

MeasureNames == {"area_under_roc_curve", "predictive_accuracy"}

MeasuresElements ==
    {[measure |-> m, other |-> o] :
        m \in SeqsUpTo(MeasureNames, MaxMeasures), o \in BOOLEAN}

MeasureDocs ==
    {[root |-> root, attrs |-> attrs, measures |-> ms] :
        root \in {"oml:evaluation_measures", "oml:error"}, attrs \in BOOLEAN,
        ms \in SeqsUpTo(MeasuresElements, MaxMeasures)}

\* a call of list_evaluation_measures
InitMeasures ==
    /\ op = "list_evaluation_measures"
    /\ pc = "list_evaluation_measures"
    /\ args = NoArgs
    /\ output_format = "object"
    /\ kwargs = <<>>
    /\ srv_doc \in MeasureDocs
    /\ srv_setups = <<>>
    /\ api_call = ""
    /\ Fresh

\* a call of list_evaluations_setups: the server holds no evaluation, or
\* n + extra of them with n distinct setup ids
InitSetupsOf(counts) ==
    /\ op = "list_evaluations_setups"
    /\ pc = "list_evaluations_setups"
    /\ \E f \in Formats :
         /\ args = [NoArgs EXCEPT !.output_format = f]
         /\ output_format = f
    /\ kwargs = <<>>
    /\ \/ /\ srv_doc = ServerNoResult
          /\ srv_setups \in SetupData(MaxSpecial)
       \/ \E n \in counts, extra \in 0..MaxExtra :
            /\ srv_doc = SetupsDoc(n, extra)
            /\ srv_setups \in SetupData(n)
    /\ api_call = ""
    /\ Fresh

InitSetups == InitSetupsOf(SetupCounts)

InitSetupsSmall == InitSetupsOf(1..MaxSmall)

Init == InitParser \/ InitPath \/ InitList \/ InitMeasures \/ InitSetupsSmall

Next ==
    \/ ListEvaluationsSetupsCall
    \/ ListEvaluations
    \/ ListAll
    \/ ListEvaluations_
    \/ PerformApiCall
    \/ NoResult
    \/ ListEvaluationsParse
    \/ ListEvaluationMeasures
    \/ ListEvaluationMeasuresParse
    \/ SplitSetups
    \/ FetchSetups
    \/ MergeSetups
    \/ ReturnSetups

Spec == Init /\ [][Next]_vars

\* the calls of list_evaluations_setups alone, on tables of every size
NextSetups ==
    \/ ListEvaluationsSetupsCall
    \/ ListEvaluations
    \/ ListAll
    \/ ListEvaluations_
    \/ PerformApiCall
    \/ NoResult
    \/ ListEvaluationsParse
    \/ SplitSetups
    \/ FetchSetups
    \/ MergeSetups
    \/ ReturnSetups

SpecSetups == InitSetups /\ [][NextSetups]_vars

-----------------------------------------------------------------------------
(* The claims *)

Terminal == pc \in {"done", "raised"}

SetupsOp == op = "list_evaluations_setups"

\* the call returned what __list_evaluations parsed from an XML response
Parsed ==
    /\ op \in {"__list_evaluations", "_list_evaluations", "list_evaluations"}
    /\ pc = "done"
    /\ "children" \in DOMAIN srv_doc

\* the records of a parsed result, and their keys, in order
ResultEntries ==
    IF result[1].kind = "DataFrame" THEN result[1].rows ELSE result[1].entries
ResultKeys ==
    IF result[1].kind = "DataFrame"
      THEN [i \in DOMAIN result[1].rows |-> result[1].rows[i].run_id]
      ELSE result[1].order

\* the run identifiers of the response's elements, in order
ResponseRunIds == [i \in DOMAIN srv_doc.children |-> int(srv_doc.children[i].run_id)]

FirstIndex(ids, k) ==
    CHOOSE i \in DOMAIN ids : ids[i] = k /\ \A j \in 1..(i - 1) : ids[j] # k
LastIndex(ids, k) ==
    CHOOSE i \in DOMAIN ids : ids[i] = k /\ \A j \in (i + 1)..Len(ids) : ids[j] # k

NonNull(e) ==
    (IF e.value # None THEN 1 ELSE 0) + (IF e.values # None THEN 1 ELSE 0)
      + (IF e.array_data # None THEN 1 ELSE 0)

\* the rows of the table list_evaluations_setups returned
SetupsResultRows ==
    IF result[1].kind = "DataFrame" THEN result[1].rows
    ELSE [i \in 1..Cardinality(DOMAIN result[1].at) |-> result[1].at[i - 1]]

SetupRequests == LET IsSetup(r) == r.call = "list_setups" IN SelectSeq(requests, IsSetup)

Max(a, b) == IF a >= b THEN a ELSE b

\* C1: a call of list_evaluations or list_evaluations_setups with an
\* output_format other than 'object', 'dict', 'dataframe' raises a usage error,
\* and no network call has been issued when it does: such a call never issues
\* a request and ends raising ValueError.
C1_InvalidFormatRaisesBeforeNetwork ==
    (op \in ViaListAll /\ args.output_format \notin ValidFormats) =>
        /\ requests = <<>>
        /\ Terminal => error = Some("ValueError")

\* C2: with n >= 1 distinct setup ids in the evaluation table the batching
\* raises nothing, the batches hold at most N ids each, every distinct id lies
\* in exactly one batch, and the setup fetches are the batches, one per batch,
\* in order.
C2_BatchesOfAtMostN ==
    (SetupsOp /\ Len(evals.rows) >= 1 /\ pc \in {"fetch", "return", "done", "raised"}) =>
        /\ ~(pc = "raised" /\ chunk = 0)
        /\ \A c \in DOMAIN setup_chunks : Len(setup_chunks[c]) <= N
        /\ \A id \in {evals.rows[i].setup_id : i \in DOMAIN evals.rows} :
             Cardinality({cj \in {<<c, j>> : c \in DOMAIN setup_chunks, j \in 1..N} :
                            /\ cj[2] <= Len(setup_chunks[cj[1]])
                            /\ setup_chunks[cj[1]][cj[2]] = id}) = 1
        /\ \A i \in DOMAIN SetupRequests :
             /\ i <= Len(setup_chunks)
             /\ SetupRequests[i].setup = setup_chunks[i]
        /\ pc \in {"return", "done"} => Len(SetupRequests) = Len(setup_chunks)

\* C3 as stated: the table list_evaluations_setups returns has as many rows as
\* the evaluation table it fetched, whatever the setup fetches returned.
C3_SameRowCount ==
    (SetupsOp /\ pc = "done") => Len(SetupsResultRows) = Len(evals.rows)

\* C3 as amended: the returned table holds every evaluation row once when the
\* fetched setup data has no row or one row of its setup id, and once per such
\* row otherwise, and holds nothing else; so the row count is that of the
\* evaluation table when no setup id is repeated in the fetched setup data.
C3_RowsPerMatchingSetup ==
    (SetupsOp /\ pc = "done") =>
        LET rows == SetupsResultRows
            left == evals.rows
        IN /\ \A i \in DOMAIN left :
                Cardinality({k \in DOMAIN rows : rows[k].run_id = left[i].run_id})
                  = Max(1, Cardinality({j \in DOMAIN setups :
                                          setups[j].setup_id = left[i].setup_id}))
           /\ \A k \in DOMAIN rows : \E i \in DOMAIN left : rows[k].run_id = left[i].run_id
           /\ (\A j1, j2 \in DOMAIN setups :
                 setups[j1].setup_id = setups[j2].setup_id => j1 = j2)
                => Len(rows) = Len(left)

\* a returned table of several batches in which a repeated setup added rows
C3_Witness ==
    /\ SetupsOp
    /\ pc = "done"
    /\ Len(setup_chunks) >= 2
    /\ Len(SetupsResultRows) > Len(evals.rows)

\* the (parameter name, value) pairs of the setup `id` on the server
ExpectedTuples(id) == << <<"C", ToString(id)>>, <<"kernel", "rbf">> >>

\* C4: in the returned table every row whose setup id has no row in the
\* fetched setup data, and every row whose setup has no parameter mapping,
\* carries an empty list as its parameters, and every other row the list of
\* (parameter name, value) pairs of its setup.
C4_ParametersAreLists ==
    (SetupsOp /\ pc = "done") =>
        \A k \in DOMAIN SetupsResultRows :
            LET row == SetupsResultRows[k]
                stored == srv_setups[row.setup_id]
            IN row.parameters =
                 ListCell(IF stored = <<>> \/ stored[1].parameters = None
                            THEN <<>> ELSE ExpectedTuples(row.setup_id))

\* C5: when the evaluation fetch yields an empty table, no setup fetch is ever
\* issued and the call returns an empty table, or the empty mapping made of it.
C5_EmptyEvaluationsNoSetupFetch ==
    /\ (SetupsOp /\ pc \in {"split", "fetch", "return", "done"} /\ Len(evals.rows) = 0) =>
          /\ SetupRequests = <<>>
          /\ pc # "fetch"
    /\ (SetupsOp /\ srv_doc = ServerNoResult /\ Terminal) =>
          /\ pc = "done"
          /\ SetupRequests = <<>>
          /\ result = Some(IF args.output_format = "dataframe" THEN EmptyDataFrame
                           ELSE [kind |-> "dict", at |-> <<>>])

\* an empty evaluation table returned as an empty table
C5_Witness ==
    /\ SetupsOp
    /\ pc = "done"
    /\ Len(evals.rows) = 0
    /\ Len(requests) = 1
    /\ result = Some(EmptyDataFrame)

C7_OneEntryPerRunId ==
    Parsed =>
        LET ids == ResponseRunIds
            keys == ResultKeys
            entries == ResultEntries
        IN /\ (result[1].kind = "DataFrame") <=> (output_format = "dataframe")
           /\ Len(keys) = Cardinality(Range(ids))
           /\ Len(entries) = Len(keys)
           /\ Range(keys) = Range(ids)
           /\ \A a, b \in DOMAIN keys :
                a < b => FirstIndex(ids, keys[a]) < FirstIndex(ids, keys[b])
           /\ \A a \in DOMAIN keys :
                LET el == srv_doc.children[LastIndex(ids, keys[a])]
                IN /\ entries[a].run_id = keys[a]
                   /\ entries[a].upload_time = el.upload_time
                   /\ entries[a].flow_name = el.flow_name
                   /\ entries[a].flow_id = int(el.flow_id)
                   /\ entries[a].setup_id = int(el.setup_id)

\* a table parsed from a response in which a run id comes back, under another
\* text, after a different one
C7_Witness ==
    /\ Parsed
    /\ output_format = "dataframe"
    /\ Len(srv_doc.children) = 3
    /\ ResponseRunIds[1] = ResponseRunIds[3]
    /\ ResponseRunIds[1] # ResponseRunIds[2]
    /\ srv_doc.children[1].run_id # srv_doc.children[3].run_id

\* the path of C8: a segment per keyword filter that is not None
RECURSIVE ExpectedKeywords(_)
ExpectedKeywords(kw) ==
    IF kw = <<>> THEN ""
    ELSE (IF kw[1][2] = PyNone THEN ""
          ELSE "/" \o kw[1][1] \o "/" \o PyStr(kw[1][2]))
           \o ExpectedKeywords(Tail(kw))

ExpectedList(name, ids) ==
    IF ids = None THEN "" ELSE "/" \o name \o "/" \o JoinInts(ids[1])

\* C8: the path _list_evaluations requests is 'evaluation/list/function/<f>',
\* then a segment for every keyword filter that is not None and none for one
\* that is None, then run, task, setup, flow, uploader, then sort_order; and
\* exactly that one request is issued.
C8_PathOmitsNoneFilters ==
    (op \in {"_list_evaluations", "list_evaluations"}
       /\ pc \in {"__list_evaluations", "parse", "no_result", "done", "raised"}
       /\ api_call # "") =>
        /\ api_call = "evaluation/list/function/" \o args.function
                        \o ExpectedKeywords(kwargs)
                        \o ExpectedList("run", args.id)
                        \o ExpectedList("task", args.task)
                        \o ExpectedList("setup", args.setup)
                        \o ExpectedList("flow", args.flow)
                        \o ExpectedList("uploader", args.uploader)
                        \o (IF args.sort_order = None THEN ""
                            ELSE "/sort_order/" \o args.sort_order[1])
        /\ Terminal => requests = <<[call |-> "get", target |-> api_call]>>

\* the measure element of a parsed measure response is a list
MeasureIsList(doc) ==
    LET q == ParseMeasuresXml(doc) IN
    /\ q.body # None
    /\ "list" \in DOMAIN q.body[1].measures
    /\ q.body[1].measures.list[1] # None
    /\ "list" \in DOMAIN q.body[1].measures.list[1][1].measure

\* C9: a response without the expected top-level tag makes the evaluation
\* parser and list_evaluation_measures raise ValueError, return nothing and
\* issue no second request; in list_evaluation_measures a present tag whose
\* measure element is not a list raises TypeError.
C9_MissingTagOrShapeRaises ==
    /\ (op = "__list_evaluations" /\ Terminal /\ srv_doc.root # "oml:evaluations") =>
          /\ error = Some("ValueError")
          /\ result = None
          /\ Len(requests) = 1
    /\ (op = "list_evaluation_measures" /\ Terminal
          /\ srv_doc.root # "oml:evaluation_measures") =>
          /\ error = Some("ValueError")
          /\ result = None
          /\ Len(requests) = 1
    /\ (op = "list_evaluation_measures" /\ Terminal
          /\ srv_doc.root = "oml:evaluation_measures" /\ ~MeasureIsList(srv_doc)) =>
          /\ error = Some("TypeError")
          /\ result = None

\* C10: in every output format, a response whose collection tag is present
\* and holds no evaluation record parses to an empty collection, an empty table
\* for 'dataframe', and raises nothing.
C10_EmptyCollectionParses ==
    (op = "__list_evaluations" /\ Terminal
       /\ srv_doc.root = "oml:evaluations" /\ srv_doc.children = <<>>) =>
        /\ pc = "done"
        /\ error = None
        /\ result = Some(EmptyResult(output_format))

====
